---- MODULE Spec2Model ----
(***************************************************************************)
(* A model of fetch_wiki_bash.py: the ordered-fallback page fetcher, the   *)
(* fenced-block extractor with its exclusion filter, the orchestrating     *)
(* main loop and the per-project writer.                                   *)
(*                                                                         *)
(* Text is a sequence of one-character strings, so that replace, lower,    *)
(* strip, startswith, substring tests and the regular expression are       *)
(* computed character by character as Python computes them (the backtick  *)
(* is the element Tick).  The fixed     *)
(* literals of a URL that contain no '/' and no ' ' are kept as one        *)
(* element each ("https:", "gitlab.com", "projects", ...).                 *)
(***************************************************************************)
EXTENDS Integers, Sequences, FiniteSets, TLC

VARIABLES
    md, ex, blocks, nseg, xpc,  \* a call of extract_bash_code_blocks on its own
    config,      \* main: wiki_pages, the list of {repo, pages} entries
    pc,          \* main: the position of the run
    wi, pi,      \* main: the index of the entry and of the page being processed
    urls,        \* fetch_wiki_page: the list of candidate URLs
    ci,          \* fetch_wiki_page: the index of the candidate URL being tried
    requested,   \* fetch_wiki_page: the URLs requested so far for this page
    last,        \* fetch_wiki_page: the response to the latest request
    allDown,     \* history: every request for this page so far met a transport
                 \* error or a status other than 200
    content,     \* main: the value fetch_wiki_page returned
    results,     \* main: the results dict, in insertion order
    pagelog,     \* history: what was recorded for each page, in processing order
    files        \* the output files, by name

xvars == <<md, ex, blocks, nseg, xpc>>
mvars == <<config, pc, wi, pi, urls, ci, requested, last, allDown, content, results,
           pagelog, files>>
vars == <<md, ex, blocks, nseg, xpc, config, pc, wi, pi, urls, ci, requested, last,
          allDown, content, results, pagelog, files>>

(***************************************************************************)
(* Text helpers (Python str methods)                                       *)
(***************************************************************************)
\* str.lower() on one character, for the letters the inputs use
LowerChar(c) ==
    CASE c = "B" -> "b" [] c = "A" -> "a" [] c = "S" -> "s" [] c = "H" -> "h"
      [] c = "E" -> "e" [] c = "L" -> "l" [] c = "R" -> "r" [] c = "X" -> "x"
      [] c = "Y" -> "y" [] c = "P" -> "p" [] c = "D" -> "d"
      [] OTHER -> c

\* str.lower()
Lower(s) == [i \in 1..Len(s) |-> LowerChar(s[i])]

\* the characters str.strip() and the regex class \s remove or match
IsSpace(c) == c \in {" ", "\n", "\t", "\r"}

RECURSIVE LStripFrom(_, _)
LStripFrom(s, i) ==
    IF i > Len(s) THEN Len(s) + 1
    ELSE IF IsSpace(s[i]) THEN LStripFrom(s, i + 1) ELSE i

RECURSIVE RStripFrom(_, _)
RStripFrom(s, j) ==
    IF j < 1 THEN 0
    ELSE IF IsSpace(s[j]) THEN RStripFrom(s, j - 1) ELSE j

\* str.strip()
Strip(s) == SubSeq(s, LStripFrom(s, 1), RStripFrom(s, Len(s)))

\* str.startswith(p)
StartsWith(s, p) == Len(p) <= Len(s) /\ SubSeq(s, 1, Len(p)) = p

\* whether t occurs in s at position i
OccursAt(s, t, i) ==
    i >= 1 /\ i + Len(t) - 1 <= Len(s) /\ SubSeq(s, i, i + Len(t) - 1) = t

\* the Python test  t in s
Contains(s, t) == \E i \in 1..(Len(s) + 1) : OccursAt(s, t, i)

\* str.replace(old, new) for a one-character old
Replace(s, old, new) ==
    LET RECURSIVE R(_)
        R(i) == IF i > Len(s) THEN <<>>
                ELSE (IF s[i] = old THEN new ELSE <<s[i]>>) \o R(i + 1)
    IN R(1)

(***************************************************************************)
(* extract_bash_code_blocks: the regular expression                        *)
(*   three backticks, (?:bash|sh|shell), \s*, \n, a lazy group of any      *)
(*   characters, three backticks; with DOTALL | IGNORECASE                 *)
(***************************************************************************)
\* the backtick character (the lexer of TLA+ accepts no backtick in a string)
Tick == "BACKTICK"

Fence == <<Tick, Tick, Tick>>

\* the alternation without its last alternative
FenceTagsWithoutShell == << <<"b","a","s","h">>, <<"s","h">> >>

\* the alternation (?:bash|sh|shell), in the order the engine tries it
FenceTags == << <<"b","a","s","h">>, <<"s","h">>, <<"s","h","e","l","l">> >>

\* IGNORECASE match of the literal t at position i
OccursAtNoCase(s, t, i) ==
    i >= 1 /\ i + Len(t) - 1 <= Len(s) /\ Lower(SubSeq(s, i, i + Len(t) - 1)) = t

\* \s*\n from position i, greedy: the index of the last newline of the run
\* of white space starting at i (0 when the run holds none)
RECURSIVE LastNewlineInRun(_, _, _)
LastNewlineInRun(s, i, found) ==
    IF i > Len(s) \/ ~IsSpace(s[i]) THEN found
    ELSE LastNewlineInRun(s, i + 1, IF s[i] = "\n" THEN i ELSE found)

\* the lazy group and the closing fence from position i: the index of the
\* first three backticks at or after i (0 when there are none)
RECURSIVE FirstFenceFrom(_, _)
FirstFenceFrom(s, i) ==
    IF i + 2 > Len(s) THEN 0
    ELSE IF OccursAt(s, Fence, i) THEN i ELSE FirstFenceFrom(s, i + 1)

\* the match of the pattern with tag number t starting at i:
\* [from, to] is group 1, next the position after the match; ok = FALSE: none
MatchWithTag(s, i, t) ==
    LET tag == FenceTags[t]
        e   == i + 3 + Len(tag)
        nl  == IF OccursAt(s, Fence, i) /\ OccursAtNoCase(s, tag, i + 3)
               THEN LastNewlineInRun(s, e, 0) ELSE 0
        cl  == IF nl = 0 THEN 0 ELSE FirstFenceFrom(s, nl + 1)
    IN  IF cl = 0 THEN [ok |-> FALSE, from |-> 0, to |-> 0, next |-> 0]
        ELSE [ok |-> TRUE, from |-> nl + 1, to |-> cl - 1, next |-> cl + 3]

\* the match starting at i: the first alternative that leads to a match
RECURSIVE MatchAt(_, _, _)
MatchAt(s, i, t) ==
    IF t > Len(FenceTags) THEN [ok |-> FALSE, from |-> 0, to |-> 0, next |-> 0]
    ELSE IF MatchWithTag(s, i, t).ok THEN MatchWithTag(s, i, t)
    ELSE MatchAt(s, i, t + 1)

\* re.findall: the non-overlapping matches, leftmost first, as spans of group 1
RECURSIVE FindAllFrom(_, _)
FindAllFrom(s, i) ==
    IF i > Len(s) THEN <<>>
    ELSE LET m == MatchAt(s, i, 1)
         IN  IF m.ok THEN <<[from |-> m.from, to |-> m.to]>> \o FindAllFrom(s, m.next)
             ELSE FindAllFrom(s, i + 1)

FindAll(s) == FindAllFrom(s, 1)

\* the inner loop with the two lower() calls left out
ShouldExcludeCaseSensitive(block, exclude_prefixes) ==
    \E k \in 1..Len(exclude_prefixes) : StartsWith(block, exclude_prefixes[k])

\* the inner loop over exclude_prefixes: whether some prefix excludes block
ShouldExclude(block, exclude_prefixes) ==
    \E k \in 1..Len(exclude_prefixes) :
        StartsWith(Lower(block), Lower(exclude_prefixes[k]))

\* the test that appends a block to filtered_blocks
Keeps(block, exclude_prefixes) ==
    ~ShouldExclude(block, exclude_prefixes) /\ block # <<>>

RECURSIVE FilterBlocks(_, _, _, _)
FilterBlocks(s, spans, k, exclude_prefixes) ==
    IF k > Len(spans) THEN <<>>
    ELSE LET block == Strip(SubSeq(s, spans[k].from, spans[k].to))
         IN  (IF Keeps(block, exclude_prefixes) THEN <<block>> ELSE <<>>)
             \o FilterBlocks(s, spans, k + 1, exclude_prefixes)

extract_bash_code_blocks(markdown_content, exclude_prefixes) ==
    FilterBlocks(markdown_content, FindAll(markdown_content), 1, exclude_prefixes)

(***************************************************************************)
(* Inputs of the extractor: Markdown built from line segments              *)
(***************************************************************************)
MaxSegs == 4

SegShOpen    == Fence \o <<"s", "h", "\n">>
SegShellOpen == Fence \o <<"S", "h", "e", "l", "l", " ", "\n">>
SegPyOpen    == Fence \o <<"p", "y", "\n">>
SegClose     == Fence \o <<"\n">>
SegXClose    == <<"x", "\n">> \o Fence \o <<"\n">>
SegYClose    == <<" ", "y", " ", "\n">> \o Fence \o <<"\n">>
SegInline    == <<"z">> \o Fence \o <<"\n">>
SegShInfo    == Fence \o <<"s", "h", " ", "x", "\n">>

Segments ==
    {SegShOpen, SegShellOpen, SegPyOpen, SegClose, SegXClose, SegYClose,
     SegInline, SegShInfo}

MaxBlocks == 2
MaxPrefixes == 2

\* block texts and exclusion prefixes of the filter's inputs
BlockTexts ==
    { <<"s","s","r","D">>, <<"S","s","R"," ","y">>, <<"x","s","s","r">>,
      <<"s","s">>, <<" ","y"," ">>, <<" ">> }

Prefixes == { <<"s","s","r">>, <<"S","S","R">>, <<"x">>, <<"Y">> }

(***************************************************************************)
(* fetch_wiki_page                                                         *)
(***************************************************************************)
\* a value of Python that is a str or None
None == [some |-> FALSE, val |-> <<>>]
Some(v) == [some |-> TRUE, val |-> v]

ApiMarker == <<"/", "a", "p", "i", "/", "v", "4", "/">>

ApiBase == <<"https:", "/", "/", "gitlab.com">> \o ApiMarker \o <<"projects", "/">>

RawBase == <<"https:", "/", "/", "gitlab.com", "/">>

\* the list urls of the candidate URLs
Urls(repo, page) ==
    LET encoded_repo == Replace(repo, "/", <<"%", "2", "F">>)
        page_slug    == Replace(page, " ", <<"-">>)
    IN  << ApiBase \o encoded_repo \o <<"/", "wikis", "/">> \o page_slug,
           ApiBase \o encoded_repo \o <<"/", "wikis", "/">> \o page,
           RawBase \o repo \o <<"/", "-", "/", "wikis", "/">> \o page_slug \o <<"/", "raw">>,
           RawBase \o repo \o <<"/", "-", "/", "wikis", "/">> \o page \o <<"/", "raw">> >>

NumCandidates == 4

\* what one iteration of the loop over urls does with the outcome of
\* requests.get: return a value, go on to the next URL, or let an exception
\* that is no RequestException escape.  response.json() raises
\* requests.JSONDecodeError, a RequestException, on a body that is no JSON;
\* data.get raises AttributeError on JSON that is no object.
ReturnValue(v) == [k |-> "return", val |-> v]
NextUrl      == [k |-> "next", val |-> <<>>]
Escapes      == [k |-> "raise", val |-> <<>>]

\* TryUrl without the early return: a usable answer does not end the loop
TryUrlGoesOn(url, resp) == NextUrl

TryUrl(url, resp) ==
    IF resp.kind = "error" THEN NextUrl
    ELSE IF resp.status = 200
         THEN IF Contains(url, ApiMarker)
              THEN IF resp.body.json = "invalid" THEN NextUrl
                   ELSE IF resp.body.json = "array" THEN Escapes
                   ELSE ReturnValue(IF resp.body.has THEN resp.body.content ELSE <<>>)
              ELSE ReturnValue(resp.body.text)
         ELSE NextUrl

\* an empty text returned after the loop instead of None
UnobtainableAsEmptyText == Some(<<>>)

\* the value returned after the loop over urls
Unobtainable == None

\* a transport error, or an answer with a status other than 200
Down(resp) == resp.kind = "error" \/ (resp.kind = "http" /\ resp.status # 200)

(***************************************************************************)
(* The remote service: what a request can be answered with                 *)
(***************************************************************************)
DocX == SegShOpen \o SegXClose \o SegShOpen \o <<"s", "s", "r", "D", "\n">> \o SegClose
DocY == SegShellOpen \o SegYClose


JsonObject(c) ==
    [json |-> "object", has |-> TRUE, content |-> c,
     text |-> <<"{">> \o Replace(c, "\n", <<"\\", "n">>) \o <<"}">>]
JsonObjectNoContent ==
    [json |-> "object", has |-> FALSE, content |-> <<>>, text |-> <<"{", "}">>]
JsonArray == [json |-> "array", has |-> FALSE, content |-> <<>>, text |-> <<"[", "]">>]
PlainText(t) == [json |-> "invalid", has |-> FALSE, content |-> <<>>, text |-> t]

Bodies == { JsonObject(DocX), JsonObjectNoContent, JsonArray, PlainText(DocY) }

NoResponse == [kind |-> "none", status |-> 0, body |-> PlainText(<<>>)]

Responses ==
    { [kind |-> "error", status |-> 0, body |-> PlainText(<<>>)],
      [kind |-> "http", status |-> 404, body |-> PlainText(<<>>)] }
        \cup { [kind |-> "http", status |-> 200, body |-> b] : b \in Bodies }

(***************************************************************************)
(* Python dicts, in insertion order: a sequence of [key, val]              *)
(***************************************************************************)
DictHas(d, k) == \E n \in 1..Len(d) : d[n].key = k

DictGet(d, k) == d[CHOOSE n \in 1..Len(d) : d[n].key = k].val

\* d[k] = v
DictSet(d, k, v) ==
    IF DictHas(d, k)
    THEN [n \in 1..Len(d) |-> IF d[n].key = k THEN [key |-> k, val |-> v] ELSE d[n]]
    ELSE Append(d, [key |-> k, val |-> v])

(***************************************************************************)
(* save_results                                                            *)
(***************************************************************************)
\* repo_filename
RepoFilename(repo) == Replace(repo, "/", <<"_">>) \o <<"_bash.sh">>

\* the f.write calls for one page
RECURSIVE WriteCodes(_, _)
WriteCodes(codes, k) ==
    IF k > Len(codes) THEN <<>>
    ELSE codes[k] \o <<"\n">> \o WriteCodes(codes, k + 1)

\* the text written to one project's file
RECURSIVE WritePages(_, _)
WritePages(pages, k) ==
    IF k > Len(pages) THEN <<>>
    ELSE WriteCodes(pages[k].val, 1) \o WritePages(pages, k + 1)

\* the files after the loop over results.items(), each opened with mode "w"
RECURSIVE SaveFrom(_, _, _)
SaveFrom(res, k, fs) ==
    IF k > Len(res) THEN fs
    ELSE LET name == RepoFilename(res[k].key)
             text == WritePages(res[k].val, 1)
         IN  SaveFrom(res, k + 1,
                      [n \in DOMAIN fs \cup {name} |-> IF n = name THEN text ELSE fs[n]])

save_results(res, fs) == SaveFrom(res, 1, fs)

(***************************************************************************)
(* main                                                                    *)
(***************************************************************************)
MaxEntries == 2

RepoGP   == <<"g", "/", "p">>
RepoG_P  == <<"g", "_", "p">>
Repos    == {RepoGP, RepoG_P}

PageInstall    == <<"I", "n", "s", "t">>
PageGetStarted == <<"G", "e", "t", " ", "S">>
PageApiV4      == <<"a", "p", "i", "/", "v", "4", "/", "x">>

PageLists == { <<PageInstall>>, <<PageGetStarted, PageApiV4>> }

Entries == [repo : Repos, pages : PageLists]

RECURSIVE SeqsUpTo(_, _)
SeqsUpTo(S, n) ==
    IF n = 0 THEN {<<>>}
    ELSE SeqsUpTo(S, n - 1)
         \cup { Append(q, x) : q \in { r \in SeqsUpTo(S, n - 1) : Len(r) = n - 1 }, x \in S }

\* config.get("exclude_prefix", ["ssr"]) of a configuration without the key
DefaultExclude == << <<"s", "s", "r">> >>

repo == config[wi].repo
page == config[wi].pages[pi]

MInit ==
    /\ config \in SeqsUpTo(Entries, MaxEntries)
    /\ pc = "repo"
    /\ wi = 1
    /\ pi = 1
    /\ urls = <<>>
    /\ ci = 1
    /\ requested = <<>>
    /\ last = NoResponse
    /\ allDown = TRUE
    /\ content = None
    /\ results = <<>>
    /\ pagelog = <<>>
    /\ files = <<>>

\* the head of the loop over wiki_pages: results[repo] = {}
BeginRepo ==
    /\ pc = "repo"
    /\ wi <= Len(config)
    /\ results' = DictSet(results, repo, <<>>)
    /\ pi' = 1
    /\ pc' = "page"
    /\ UNCHANGED <<config, wi, urls, ci, requested, last, allDown, content, pagelog, files>>
    /\ UNCHANGED xvars

\* the head of the loop over pages: the call of fetch_wiki_page
BeginPage ==
    /\ pc = "page"
    /\ pi <= Len(config[wi].pages)
    /\ urls' = Urls(repo, page)
    /\ pc' = "fetch"
    /\ UNCHANGED <<config, wi, pi, ci, requested, last, allDown, content, results, pagelog,
                   files>>
    /\ UNCHANGED xvars

\* one iteration of the loop over urls, with the return that follows the
\* last one
Attempt ==
    /\ pc = "fetch"
    /\ \E resp \in Responses :
           LET url == urls[ci]
               out == TryUrl(url, resp)
           IN  /\ requested' = Append(requested, url)
               /\ last' = resp
               /\ allDown' = (allDown /\ Down(resp))
               /\ IF out.k = "return"
                  THEN pc' = "got" /\ content' = Some(out.val) /\ ci' = ci
                  ELSE IF out.k = "raise"
                  THEN pc' = "aborted" /\ content' = content /\ ci' = ci
                  ELSE IF ci < NumCandidates
                  THEN pc' = "fetch" /\ content' = content /\ ci' = ci + 1
                  ELSE pc' = "got" /\ content' = Unobtainable /\ ci' = ci + 1
    /\ UNCHANGED <<config, wi, pi, urls, results, pagelog, files>>
    /\ UNCHANGED xvars

\* the codes main stores for the page: if content: ... else: []
PageCodes(c) ==
    IF c.some /\ c.val # <<>> THEN extract_bash_code_blocks(c.val, DefaultExclude)
    ELSE <<>>

\* results[repo][page] = ..., after which the locals of the finished call of
\* fetch_wiki_page and the old value of content are dead
RecordPage ==
    /\ pc = "got"
    /\ LET codes == PageCodes(content)
       IN  /\ results' = DictSet(results, repo,
                                 DictSet(DictGet(results, repo), page, codes))
           /\ pagelog' = Append(pagelog, [repo |-> repo, page |-> page,
                                          codes |-> codes])
    /\ pi' = pi + 1
    /\ urls' = <<>>
    /\ ci' = 1
    /\ requested' = <<>>
    /\ last' = NoResponse
    /\ allDown' = TRUE
    /\ content' = None
    /\ pc' = "page"
    /\ UNCHANGED <<config, wi, files>>
    /\ UNCHANGED xvars

\* the end of the loop over pages
EndRepo ==
    /\ pc = "page"
    /\ pi > Len(config[wi].pages)
    /\ wi' = wi + 1
    /\ pc' = "repo"
    /\ UNCHANGED <<config, pi, urls, ci, requested, last, allDown, content, results, pagelog,
                   files>>
    /\ UNCHANGED xvars

\* save_results(results, output_dir)
Save ==
    /\ pc = "repo"
    /\ wi > Len(config)
    /\ files' = save_results(results, files)
    /\ pc' = "done"
    /\ UNCHANGED <<config, wi, pi, urls, ci, requested, last, allDown, content, results,
                   pagelog>>
    /\ UNCHANGED xvars

MIdle ==
    /\ config = <<>>
    /\ pc = "idle"
    /\ wi = 1
    /\ pi = 1
    /\ urls = <<>>
    /\ ci = 1
    /\ requested = <<>>
    /\ last = NoResponse
    /\ allDown = TRUE
    /\ content = None
    /\ results = <<>>
    /\ pagelog = <<>>
    /\ files = <<>>

XInit ==
    /\ md = <<>>
    /\ ex = <<>>
    /\ blocks = <<>>
    /\ nseg = 0
    /\ xpc = "input"
    /\ MIdle

\* one more line segment of the page text
AppendSegment ==
    /\ xpc = "input"
    /\ nseg < MaxSegs
    /\ \E seg \in Segments : md' = md \o seg
    /\ nseg' = nseg + 1
    /\ UNCHANGED <<ex, blocks, xpc>>
    /\ UNCHANGED mvars

\* one more well-formed sh block of the page text
AddBlock ==
    /\ xpc = "input"
    /\ nseg < MaxBlocks
    /\ \E b \in BlockTexts : md' = md \o SegShOpen \o b \o <<"\n">> \o SegClose
    /\ nseg' = nseg + 1
    /\ UNCHANGED <<ex, blocks, xpc>>
    /\ UNCHANGED mvars

\* one more entry of the configured exclude_prefix list
AddPrefix ==
    /\ xpc = "input"
    /\ Len(ex) < MaxPrefixes
    /\ \E p \in Prefixes : ex' = Append(ex, p)
    /\ UNCHANGED <<md, blocks, nseg, xpc>>
    /\ UNCHANGED mvars

\* the call extract_bash_code_blocks(md, ex)
Extract ==
    /\ xpc = "input"
    /\ blocks' = extract_bash_code_blocks(md, ex)
    /\ xpc' = "extracted"
    /\ UNCHANGED <<md, ex, nseg>>
    /\ UNCHANGED mvars

XNext == AppendSegment \/ Extract

FNext == AddBlock \/ AddPrefix \/ Extract

SpecExtract == XInit /\ [][XNext]_vars

SpecFilter == XInit /\ [][FNext]_vars

Init ==
    /\ MInit
    /\ md = <<>>
    /\ ex = <<>>
    /\ blocks = <<>>
    /\ nseg = 0
    /\ xpc = "idle"

Next == BeginRepo \/ BeginPage \/ Attempt \/ RecordPage \/ EndRepo \/ Save

Spec == Init /\ [][Next]_vars

(***************************************************************************)
(* Reference reading of a Markdown text, line by line: outside a block a   *)
(* line starting with three backticks opens a block, the text after the    *)
(* backticks being its info string and the first word of that its language *)
(* tag; inside a block a line holding only three backticks closes it and   *)
(* every other line is content.  A block records its tag, the rest of its *)
(* opening line, where its fences are (at, end), its content (from..to)    *)
(* and whether it is closed.                                               *)
(***************************************************************************)
RECURSIVE LineEnd(_, _)
LineEnd(s, i) ==
    IF i > Len(s) THEN Len(s) + 1
    ELSE IF s[i] = "\n" THEN i ELSE LineEnd(s, i + 1)

RECURSIVE WordEnd(_, _)
WordEnd(s, i) ==
    IF i > Len(s) \/ IsSpace(s[i]) THEN i - 1 ELSE WordEnd(s, i + 1)

FirstWord(s) == SubSeq(s, 1, WordEnd(s, 1))

NoBlock == [in |-> FALSE, tag |-> <<>>, rest |-> <<>>, at |-> 0, from |-> 0]

RECURSIVE FencedBlocksFrom(_, _, _)
FencedBlocksFrom(s, i, open) ==
    IF i > Len(s)
    THEN IF open.in THEN <<[tag |-> open.tag, rest |-> open.rest, at |-> open.at,
                            from |-> open.from, to |-> Len(s), end |-> 0,
                            closed |-> FALSE]>>
         ELSE <<>>
    ELSE LET e    == LineEnd(s, i)
             line == SubSeq(s, i, e - 1)
         IN  IF ~open.in
             THEN IF StartsWith(line, Fence)
                  THEN LET rest == SubSeq(line, 4, Len(line))
                       IN FencedBlocksFrom(s, e + 1,
                              [in |-> TRUE, tag |-> Lower(FirstWord(Strip(rest))),
                               rest |-> rest, at |-> i, from |-> e + 1])
                  ELSE FencedBlocksFrom(s, e + 1, open)
             ELSE IF Strip(line) = Fence
                  THEN <<[tag |-> open.tag, rest |-> open.rest, at |-> open.at,
                          from |-> open.from, to |-> i - 1,
                          end |-> i + LStripFrom(line, 1) - 1, closed |-> TRUE]>>
                       \o FencedBlocksFrom(s, e + 1, NoBlock)
                  ELSE FencedBlocksFrom(s, e + 1, open)

FencedBlocks(s) == FencedBlocksFrom(s, 1, NoBlock)

\* the language tags of a shell block, in lower case
ShellTags == { <<"b","a","s","h">>, <<"s","h">>, <<"s","h","e","l","l">> }

\* the trimmed text between a block's opening and closing fence
TrimmedText(s, b) == Strip(SubSeq(s, b.from, b.to))

\* the closed blocks of s whose opening fence is tagged bash, sh or shell
ShellBlocks(s) ==
    SelectSeq(FencedBlocks(s), LAMBDA b : b.closed /\ b.tag \in ShellTags)

ShellTexts(s) ==
    [k \in 1..Len(ShellBlocks(s)) |-> TrimmedText(s, ShellBlocks(s)[k])]

\* every run of three backticks of s is a fence of a closed block, written at
\* the start of its line, and a bash/sh/shell tag follows its backticks at
\* once and is followed by white space only
TagOnly(rest) ==
    \E t \in ShellTags :
        /\ StartsWith(Lower(rest), t)
        /\ Strip(SubSeq(rest, Len(t) + 1, Len(rest))) = <<>>

WellFenced(s) ==
    LET bs == FencedBlocks(s)
    IN  /\ \A k \in 1..Len(bs) :
               bs[k].closed /\ (bs[k].tag \in ShellTags => TagOnly(bs[k].rest))
        /\ \A i \in 1..Len(s) :
               OccursAt(s, Fence, i) =>
                   \E k \in 1..Len(bs) : i = bs[k].at \/ i = bs[k].end

KeptSpans(s, exclude_prefixes) ==
    SelectSeq(FindAll(s),
              LAMBDA m : Keeps(Strip(SubSeq(s, m.from, m.to)), exclude_prefixes))

\* C7: no returned block is text of a fenced block whose opening fence has
\* another language tag, or none
C7_OtherLanguageNeverExtracted ==
    xpc = "extracted" =>
        \A k \in 1..Len(KeptSpans(md, ex)) : \A n \in 1..Len(FencedBlocks(md)) :
            LET m == KeptSpans(md, ex)[k]
                b == FencedBlocks(md)[n]
            IN  b.tag \notin ShellTags => (m.to < b.from \/ b.to < m.from)

Range(f) == { f[k] : k \in DOMAIN f }

\* the trimmed texts of the matches, before the filter
Candidates(s) ==
    [k \in 1..Len(FindAll(s)) |-> Strip(SubSeq(s, FindAll(s)[k].from, FindAll(s)[k].to))]

\* lowercase(B) starts with lowercase(p) for some p of the set P
PrefixRemoves(B, P) ==
    \E p \in P : /\ Len(p) <= Len(B)
                 /\ \A i \in 1..Len(p) : LowerChar(B[i]) = LowerChar(p[i])

\* C5: a non-empty block is removed iff its lowercase form starts with the
\* lowercase form of some prefix of the set; the survivors are returned
\* unchanged and in order
C5_RemovedIffPrefix ==
    xpc = "extracted" =>
        blocks = SelectSeq(Candidates(md),
                           LAMBDA B : B # <<>> /\ ~PrefixRemoves(B, Range(ex)))

\* two different prefixes, a block removed by a partial-word match that
\* differs in letter case, and a block that survives
C5_Witness ==
    /\ xpc = "extracted" /\ Len(ex) = 2 /\ ex[1] # ex[2]
    /\ blocks # <<>>
    /\ \E k \in 1..Len(Candidates(md)) :
           LET B == Candidates(md)[k]
           IN  /\ PrefixRemoves(B, {ex[2]}) /\ ~PrefixRemoves(B, {ex[1]})
               /\ Len(B) > Len(ex[2]) /\ ~StartsWith(B, ex[2])

(***************************************************************************)
(* Properties of fetch_wiki_page                                           *)
(***************************************************************************)
InFetch == pc \in {"fetch", "got", "aborted"}

\* the position in urls of the latest request
Position == Len(requested)

\* an answer with status 200
Answers200(resp) == resp.kind = "http" /\ resp.status = 200

\* a status-200 answer to a URL containing /api/v4/ whose body is no JSON
UnparseableApiAnswer(resp, url) ==
    Answers200(resp) /\ Contains(url, ApiMarker) /\ resp.body.json = "invalid"

\* C1 (as stated): a candidate answering with status 200 ends the sequence,
\* no later candidate is requested
C1_First200Ends ==
    (InFetch /\ Position > 0 /\ Answers200(last)) => pc # "fetch"

\* C1 (amended): the candidates are requested strictly in list order, and the
\* sequence ends at the first candidate that answers with status 200 unless
\* that answer is to a URL containing /api/v4/ and its body is no JSON, which
\* counts as a failure; no later candidate is requested, and a value the call
\* returns comes from the answer of the candidate that ended the sequence
C1_FirstUsable200Ends ==
    InFetch =>
        /\ Position <= NumCandidates
        /\ requested = SubSeq(urls, 1, Position)
        /\ pc = "fetch" =>
               /\ Position = ci - 1
               /\ Position > 0 =>
                      (Down(last) \/ UnparseableApiAnswer(last, requested[Position]))
        /\ (pc = "got" /\ content.some) =>
               /\ Position = ci
               /\ Answers200(last)
               /\ content.val =
                      IF Contains(requested[Position], ApiMarker)
                      THEN (IF last.body.has THEN last.body.content ELSE <<>>)
                      ELSE last.body.text
        /\ (pc = "got" /\ ~content.some) =>
               /\ Position = NumCandidates
               /\ (Down(last) \/ UnparseableApiAnswer(last, requested[Position]))

\* candidate 1 failed, candidate 2 succeeded and its content was returned
C1_Witness ==
    /\ pc = "got" /\ Position = 2 /\ content = Some(DocX)
    /\ last.body = JsonObject(DocX)

\* C2: when every candidate of a page meets a transport error or a status
\* other than 200, fetch_wiki_page returns None, main records an empty list
\* for the page and goes on to the next page; no such page aborts the run
C2_AllDownRecordsEmpty ==
    [][ /\ (pc = "fetch" /\ ci = NumCandidates /\ allDown') =>
               (pc' = "got" /\ content' = None)
        /\ (pc = "got" /\ allDown /\ Position = NumCandidates) =>
               /\ pc' = "page" /\ wi' = wi /\ pi' = pi + 1
               /\ DictGet(DictGet(results', repo), page) = <<>>
               /\ pagelog'[Len(pagelog')].codes = <<>>
        /\ (pc' = "aborted") => ~allDown'
      ]_vars

\* a page of the second entry with every candidate down, after a page that
\* yielded blocks
C2_Witness ==
    /\ pc = "got" /\ allDown /\ Position = NumCandidates /\ content = None
    /\ wi = 2
    /\ \E n \in 1..Len(pagelog) : pagelog[n].codes # <<>>

\* a network-level failure of the latest request: a transport error, or a
\* status-200 answer of an API candidate (positions 1 and 2) whose body is
\* no JSON object
NetworkFailure(resp, pos) ==
    \/ resp.kind = "error"
    \/ Answers200(resp) /\ pos \in {1, 2} /\ resp.body.json # "object"

\* C3: a network-level failure of one candidate is caught in fetch_wiki_page,
\* the next candidate is tried (or None returned after the last) and the run
\* is not aborted
C3_FailureTriesNext ==
    (InFetch /\ Position > 0 /\ NetworkFailure(last, Position)) =>
        \/ pc = "fetch" /\ ci = Position + 1
        \/ pc = "got" /\ Position = NumCandidates /\ content = None

\* C9: a status-200 answer is returned by the kind of its candidate: the
\* content field (or empty text) of the parsed object for positions 1 and 2,
\* the body text verbatim for positions 3 and 4
C9_ValueByKind ==
    (InFetch /\ Position > 0 /\ Answers200(last)
        /\ (Position \in {3, 4} \/ last.body.json = "object")) =>
        /\ pc = "got"
        /\ content = Some(IF Position \in {1, 2}
                          THEN (IF last.body.has THEN last.body.content ELSE <<>>)
                          ELSE last.body.text)

\* C10: within one call no request target is issued twice
C10_NoTargetTwice ==
    InFetch => \A i, j \in 1..Len(requested) : i # j => requested[i] # requested[j]

(***************************************************************************)
(* Properties of main and save_results                                     *)
(***************************************************************************)
\* C4: when results is handed to save_results, every configured page has
\* exactly one entry under its project
C4_EveryPageHasOneEntry ==
    (pc = "repo" /\ wi > Len(config)) =>
        \A e \in 1..Len(config) : \A q \in 1..Len(config[e].pages) :
            /\ DictHas(results, config[e].repo)
            /\ LET pages == DictGet(results, config[e].repo)
               IN  Cardinality({n \in 1..Len(pages) : pages[n].key = config[e].pages[q]}) = 1

\* the pages configured for project r, in configuration order, each once
RECURSIVE ConfiguredPages(_, _)
ConfiguredPages(r, e) ==
    IF e > Len(config) THEN <<>>
    ELSE (IF config[e].repo = r THEN config[e].pages ELSE <<>>) \o ConfiguredPages(r, e + 1)

RECURSIVE Distinct(_, _)
Distinct(q, k) ==
    IF k > Len(q) THEN <<>>
    ELSE (IF \E j \in 1..(k - 1) : q[j] = q[k] THEN <<>> ELSE <<q[k]>>) \o Distinct(q, k + 1)

\* the filtered blocks of page p of project r, as last extracted
FilteredBlocks(r, p) ==
    LET hits == {n \in 1..Len(pagelog) : pagelog[n].repo = r /\ pagelog[n].page = p}
    IN  pagelog[CHOOSE n \in hits : \A m \in hits : m <= n].codes

RECURSIVE ExpectedText(_, _, _)
ExpectedText(r, q, k) ==
    IF k > Len(q) THEN <<>>
    ELSE WriteCodes(FilteredBlocks(r, q[k]), 1) \o ExpectedText(r, q, k + 1)

\* C8: after save_results every configured project has a file of its own,
\* named from the project, holding the filtered blocks of its pages, each
\* followed by a newline, in page order and then block order
C8_OneFilePerProject ==
    pc = "done" =>
        \A e \in 1..Len(config) :
            LET r == config[e].repo
            IN  /\ RepoFilename(r) \in DOMAIN files
                /\ files[RepoFilename(r)] =
                       ExpectedText(r, Distinct(ConfiguredPages(r, 1), 1), 1)
                /\ \A f \in 1..Len(config) :
                       config[f].repo # r => RepoFilename(config[f].repo) # RepoFilename(r)

====
